---- MODULE Spec2Model ----
(***************************************************************************)
(* Model of go-win-monitor (src/main.go): the background goroutine started *)
(* by onReady runs run() forever with a 5 s sleep between attempts; run()  *)
(* dials a websocket, authenticates, and sends one Metrics sample at once  *)
(* and one per 30 s tick until a write fails.  The menu titles are shared  *)
(* with the tray and written under menuMu.                                 *)
(***************************************************************************)
EXTENDS Integers, Sequences, FiniteSets, TLC

\* ---------------------------------------------------------------- bounds
MaxAttempts == 4      \* the attempt counter saturates here
MaxSamples == 3       \* samples collected over the life of the process

\* ------------------------------------------------------------- constants
BackoffSecs == 5
TickSecs == 30

\* ------------------------------------------------------------ JSON values
\* A member of a JSON object: key, value type, and the value's payload.
Member(k, vt, s, n) == [k |-> k, vt |-> vt, s |-> s, n |-> n]
StrMember(k, s) == Member(k, "string", s, 0)
NumMember(k, n) == Member(k, "number", "", n)
NullMember(k) == Member(k, "null", "", 0)
\* A message body: t is "invalid" (not JSON), "null", "array", "string" or
\* "object"; members is the set of members of an object.
Json(t, members) == [t |-> t, members |-> members]
NoMsg == Json("none", {})

\* The acknowledgments the collector (or whatever answers) may send.
AckMsgs ==
    { Json("object", {StrMember("status", "ok")}),
      Json("object", {StrMember("status", "ok"), StrMember("msg", "hi")}),
      Json("object", {StrMember("status", "ok"), NullMember("msg")}),
      Json("object", {StrMember("status", "ok"), NumMember("code", 1)}),
      Json("object", {StrMember("status", "fail")}),
      Json("object", {StrMember("Status", "ok")}),
      Json("object", {NumMember("status", 1)}),
      Json("object", {NullMember("status")}),
      Json("object", {}),
      Json("null", {}),
      Json("array", {}),
      Json("string", {}),
      Json("invalid", {}) }

\* json.Unmarshal(msg, &resp) with resp a map[string]string: invalid text
\* and a top-level array/string are errors; a top-level null leaves resp
\* nil without error; in an object a string member is stored, a null member
\* stores the zero value "" without error, any other member type is an
\* UnmarshalTypeError.
Unmarshal(m) ==
    IF m.t = "null" THEN [err |-> FALSE, resp |-> {}]
    ELSE IF m.t # "object" THEN [err |-> TRUE, resp |-> {}]
    ELSE [err |-> \E mm \in m.members : mm.vt \notin {"string", "null"},
          resp |-> {<<mm.k, mm.s>> : mm \in {x \in m.members : x.vt \in {"string", "null"}}}]

\* resp[key] on a Go map: the zero value "" when the key is absent.
MapGet(resp, key) ==
    IF \E p \in resp : p[1] = key
    THEN (CHOOSE p \in resp : p[1] = key)[2]
    ELSE ""

\* json encoding of AuthMessage (field tag `json:"secret"`).
MarshalAuth(sec) == Json("object", {StrMember("secret", sec)})

\* json encoding of Metrics (the five field tags of the struct).
MarshalMetrics(m) ==
    Json("object", {NumMember("cpu", m.CPU), NumMember("ram", m.RAM),
                    NumMember("ramUsedMb", m.RAMUsedMB),
                    NumMember("ramTotalMb", m.RAMTotalMB),
                    NumMember("gpu", m.GPU)})

\* ------------------------------------------------------------ environment
EnvKeys == {"M_WSS_URL", "M_API_URL", "M_AGENT_SECRET"}
Env(w, a, s) ==
    [k \in EnvKeys |-> IF k = "M_WSS_URL" THEN w
                       ELSE IF k = "M_API_URL" THEN a ELSE s]
\* The environments the process is started in.
Envs ==
    { Env("wss://collector/ws", "wss://api/ws", "s3cret"),
      Env("wss://collector/ws", "", ""),
      Env("", "wss://api/ws", "s3cret"),
      Env("", "", "") }

\* getEnv(key, fallback): the variable's value unless it is empty.
getEnv(e, key, fallback) == IF e[key] # "" THEN e[key] ELSE fallback

\* websocket.DefaultDialer.Dial can only succeed on a ws/wss URL; the empty
\* string is a malformed URL.
Dialable(url) == url # ""

\* ---------------------------------------------------------------- sampler
\* What the three sub-sources may answer.  cpu.Percent: an error (or an
\* empty slice) or a percentage; mem.VirtualMemory: an error or a stat;
\* nvidia-smi: the command fails, prints something that does not parse, or
\* prints a percentage.
CpuErr == [err |-> TRUE, v |-> 0]
CpuOk == [err |-> FALSE, v |-> 42]
MemErr == [err |-> TRUE, pct |-> 0, used |-> 0, total |-> 0]
MemOk == [err |-> FALSE, pct |-> 67, used |-> 4096, total |-> 8192]
GpuCmdErr == [cmdErr |-> TRUE, parses |-> FALSE, v |-> 0]
GpuNoParse == [cmdErr |-> FALSE, parses |-> FALSE, v |-> 0]
GpuOk == [cmdErr |-> FALSE, parses |-> TRUE, v |-> 15]
\* The answers of the three sources at one sampling.
SourceCases ==
    { <<CpuOk, MemOk, GpuOk>>, <<CpuOk, MemOk, GpuCmdErr>>,
      <<CpuOk, MemOk, GpuNoParse>>, <<CpuErr, MemErr, GpuOk>> }

\* getNvidiaGPU(): (usage, ok).
getNvidiaGPU(g) ==
    IF g.cmdErr THEN [usage |-> 0, ok |-> FALSE]
    ELSE IF ~g.parses THEN [usage |-> 0, ok |-> FALSE]
    ELSE [usage |-> g.v, ok |-> TRUE]

\* collectMetrics that gives up on the sample when the GPU query fails.
collectMetrics_Abort(c, r, g) ==
    IF getNvidiaGPU(g).ok
    THEN [CPU |-> IF ~c.err THEN c.v ELSE 0,
          RAM |-> IF ~r.err THEN r.pct ELSE 0,
          RAMUsedMB |-> IF ~r.err THEN r.used ELSE 0,
          RAMTotalMB |-> IF ~r.err THEN r.total ELSE 0,
          GPU |-> getNvidiaGPU(g).usage]
    ELSE [CPU |-> 0, RAM |-> 0, RAMUsedMB |-> 0, RAMTotalMB |-> 0, GPU |-> -1]

\* collectMetrics(): starts from Metrics{GPU: -1} and overwrites the fields
\* whose source answered.
collectMetrics(c, r, g) ==
    [CPU |-> IF ~c.err THEN c.v ELSE 0,
     RAM |-> IF ~r.err THEN r.pct ELSE 0,
     RAMUsedMB |-> IF ~r.err THEN r.used ELSE 0,
     RAMTotalMB |-> IF ~r.err THEN r.total ELSE 0,
     GPU |-> IF getNvidiaGPU(g).ok THEN getNvidiaGPU(g).usage ELSE -1]

ZeroMetrics == [CPU |-> 0, RAM |-> 0, RAMUsedMB |-> 0, RAMTotalMB |-> 0, GPU |-> 0]

\* ------------------------------------------------------------ menu titles
Title(fmt, args) == [fmt |-> fmt, args |-> args]
StatusTitle(status) == "Status: " \o status

\* ------------------------------------------------------------------ state
VARIABLES
    alive,       \* the process has not called os.Exit
    env,         \* the process environment
    apiURL,      \* package variable apiURL
    secret,      \* package variable secret
    pc,          \* position of the background goroutine
    ssArg,       \* setStatus: its argument
    ssRet,       \* setStatus: where it returns to
    menuMu,      \* holder of the mutex menuMu, "" when free
    menuStatus,  \* title of the status menu item
    menuCPU,     \* title of the CPU menu item
    menuRAM,     \* title of the RAM menu item
    menuGPU,     \* title of the GPU menu item
    conns,       \* number of websocket connections open
    defers,      \* run(): the deferred calls registered so far
    err,         \* error of the current/last run() ("nil" when none)
    msg,         \* run(): the acknowledgment read
    wire,        \* messages written successfully on the current connection
    metrics,     \* sendMetrics(): the sample collected
    ticker,      \* period in seconds of the running ticker, 0 when none
    tickBuf,     \* ticks buffered in ticker.C (capacity 1)
    activeRuns,  \* run() invocations that have not returned
    attempts,    \* run() invocations started (saturating)
    backoffs,    \* time.Sleep calls since run() last returned
    sleptSecs,   \* seconds slept since run() last returned
    nextId,      \* samples collected so far; the next sample's number
    curId,       \* number of the sample in metrics
    inflight,    \* sample numbers whose WriteJSON has not returned
    okSends,     \* sendMetrics calls of this session that returned nil
    sendCalls,   \* sendMetrics calls of this session
    ticksRecv,   \* ticks received from ticker.C in this session
    failedIds,   \* sample numbers whose WriteJSON failed
    sentIds,     \* sample numbers written successfully, all sessions
    connectedShown, \* setStatus("Connected") was called in this attempt
    emitted,     \* the statuses passed to SetTitle in this attempt, in order
    peerSilent,  \* the peer of the connection sends nothing
    gpuProc,     \* the nvidia-smi process cmd.Run waits for: "exits", "hangs", "" when none
    src          \* what the three sources answer at the current sampling

vars == <<alive, env, apiURL, secret, pc, ssArg, ssRet, menuMu, menuStatus,
          menuCPU, menuRAM, menuGPU, conns, defers, err, msg, wire, metrics,
          ticker, tickBuf, activeRuns, attempts, backoffs, sleptSecs,
          nextId, curId, inflight, okSends, sendCalls, ticksRecv, failedIds,
          sentIds, connectedShown, emitted, peerSilent, gpuProc, src>>

cfgVars == <<env, apiURL, secret>>
menuVars == <<menuMu, menuStatus, menuCPU, menuRAM, menuGPU>>
metricTitles == <<menuCPU, menuRAM, menuGPU>>
sessVars == <<wire, okSends, sendCalls, ticksRecv, connectedShown>>
sampleVars == <<metrics, nextId, curId, inflight, failedIds, sentIds>>
tickVars == <<ticker, tickBuf>>
supVars == <<activeRuns, attempts, backoffs, sleptSecs>>
extVars == <<emitted, peerSilent, gpuProc, src>>

\* The state once onReady has built the menu and started the goroutine.
Init ==
    /\ alive = TRUE
    /\ env \in Envs
    /\ apiURL = getEnv(env, "M_WSS_URL", "")
    /\ secret = getEnv(env, "M_AGENT_SECRET", "")
    /\ pc = "loop"
    /\ ssArg = ""
    /\ ssRet = ""
    /\ menuMu = ""
    /\ menuStatus = "Status: Disconnected"
    /\ menuCPU = Title("CPU: ---", <<>>)
    /\ menuRAM = Title("RAM: ---", <<>>)
    /\ menuGPU = Title("GPU: ---", <<>>)
    /\ conns = 0
    /\ defers = <<>>
    /\ err = "nil"
    /\ msg = NoMsg
    /\ wire = <<>>
    /\ metrics = ZeroMetrics
    /\ ticker = 0
    /\ tickBuf = 0
    /\ activeRuns = 0
    /\ attempts = 0
    /\ backoffs = 0
    /\ sleptSecs = 0
    /\ nextId = 0
    /\ curId = 0
    /\ inflight = {}
    /\ okSends = 0
    /\ sendCalls = 0
    /\ ticksRecv = 0
    /\ failedIds = {}
    /\ sentIds = <<>>
    /\ connectedShown = FALSE
    /\ emitted = <<>>
    /\ peerSilent = FALSE
    /\ gpuProc = ""
    /\ src = <<CpuErr, MemErr, GpuCmdErr>>

Min(a, b) == IF a < b THEN a ELSE b

\* ------------------------------------------------------------- supervisor
\* RunEnter of a run() that dials without setStatus("Connecting...").
RunEnter_NoStatus ==
    /\ alive /\ pc = "loop"
    /\ activeRuns' = activeRuns + 1
    /\ attempts' = Min(attempts + 1, MaxAttempts)
    /\ err' = "nil"
    /\ msg' = NoMsg
    /\ defers' = <<>>
    /\ wire' = <<>>
    /\ okSends' = 0
    /\ sendCalls' = 0
    /\ ticksRecv' = 0
    /\ connectedShown' = FALSE
    /\ emitted' = <<>>
    /\ pc' = "dial"
    /\ UNCHANGED <<alive, cfgVars, peerSilent, gpuProc, src, ssArg, ssRet,
                   menuVars, conns, sampleVars, tickVars, backoffs, sleptSecs>>

\* for { err := run() ...: the call of run(), up to its setStatus call.
RunEnter ==
    /\ alive /\ pc = "loop"
    /\ activeRuns' = activeRuns + 1
    /\ attempts' = Min(attempts + 1, MaxAttempts)
    /\ err' = "nil"
    /\ msg' = NoMsg
    /\ defers' = <<>>
    /\ wire' = <<>>
    /\ okSends' = 0
    /\ sendCalls' = 0
    /\ ticksRecv' = 0
    /\ connectedShown' = FALSE
    /\ emitted' = <<>>
    /\ ssArg' = "Connecting..."
    /\ ssRet' = "dial"
    /\ pc' = "ss_lock"
    /\ UNCHANGED <<alive, cfgVars, peerSilent, gpuProc, src, menuVars, conns, sampleVars, tickVars,
                   backoffs, sleptSecs>>

\* ---------------------------------------------------------------- setStatus
\* menuMu.Lock()
SetStatusLock ==
    /\ alive /\ pc = "ss_lock" /\ menuMu = ""
    /\ menuMu' = "bg"
    /\ pc' = "ss_title"
    /\ UNCHANGED <<alive, cfgVars, extVars, ssArg, ssRet, menuStatus, metricTitles,
                   conns, defers, err, msg, sessVars, sampleVars, tickVars,
                   supVars>>

\* menuStatus.SetTitle(fmt.Sprintf("Status: %s", status))
SetStatusTitle ==
    /\ alive /\ pc = "ss_title"
    /\ menuStatus' = StatusTitle(ssArg)
    /\ connectedShown' = (connectedShown \/ ssArg = "Connected")
    /\ emitted' = Append(emitted, ssArg)
    /\ pc' = "ss_unlock"
    /\ UNCHANGED <<alive, cfgVars, peerSilent, gpuProc, src, ssArg, ssRet, menuMu, metricTitles, conns,
                   defers, err, msg, wire, okSends, sendCalls, ticksRecv,
                   sampleVars, tickVars, supVars>>

\* SetStatusUnlock of a setStatus that returns without unlocking.
SetStatusUnlock_Leak ==
    /\ alive /\ pc = "ss_unlock"
    /\ pc' = ssRet
    /\ UNCHANGED <<alive, cfgVars, extVars, ssArg, ssRet, menuVars, conns,
                   defers, err, msg, sessVars, sampleVars, tickVars, supVars>>

\* defer menuMu.Unlock(), and the return to the caller
SetStatusUnlock ==
    /\ alive /\ pc = "ss_unlock"
    /\ menuMu' = ""
    /\ pc' = ssRet
    /\ UNCHANGED <<alive, cfgVars, extVars, ssArg, ssRet, menuStatus, metricTitles,
                   conns, defers, err, msg, sessVars, sampleVars, tickVars,
                   supVars>>

\* ---------------------------------------------------------------------- run
\* A return of run() with an error: the error value, then the deferred calls.
Fail(e) ==
    /\ err' = e
    /\ pc' = "run_ret"

\* Dial that ends the process (log.Fatal) when the URL is not configured.
Dial_FatalOnEmptyURL ==
    /\ pc = "dial" /\ alive
    /\ \/ /\ Dialable(apiURL)
          /\ conns' = conns + 1
          /\ defers' = <<"conn.Close">>
          /\ pc' = "auth_send"
          /\ peerSilent' \in BOOLEAN
          /\ UNCHANGED <<err, alive>>
       \/ /\ Dialable(apiURL)
          /\ Fail("dial")
          /\ UNCHANGED <<conns, defers, peerSilent, alive>>
       \/ /\ ~Dialable(apiURL)
          /\ Fail("dial")
          /\ alive' = FALSE
          /\ UNCHANGED <<conns, defers, peerSilent>>
    /\ UNCHANGED <<cfgVars, emitted, gpuProc, src, ssArg, ssRet, menuVars, msg,
                   sessVars, sampleVars, tickVars, supVars>>

\* Dial without the defer of conn.Close().
Dial_NoDefer ==
    /\ alive /\ pc = "dial"
    /\ \/ /\ Dialable(apiURL)
          /\ conns' = conns + 1
          /\ pc' = "auth_send"
          /\ peerSilent' \in BOOLEAN
          /\ UNCHANGED <<err, defers>>
       \/ /\ Fail("dial")
          /\ UNCHANGED peerSilent
          /\ UNCHANGED <<conns, defers>>
    /\ UNCHANGED <<alive, cfgVars, emitted, gpuProc, src, ssArg, ssRet, menuVars, msg, sessVars,
                   sampleVars, tickVars, supVars>>

\* conn, _, err := websocket.DefaultDialer.Dial(apiURL, nil); defer conn.Close()
Dial ==
    /\ alive /\ pc = "dial"
    /\ \/ /\ Dialable(apiURL)
          /\ conns' = conns + 1
          /\ defers' = <<"conn.Close">>
          /\ pc' = "auth_send"
          /\ peerSilent' \in BOOLEAN
          /\ UNCHANGED err
       \/ /\ Fail("dial")
          /\ UNCHANGED peerSilent
          /\ UNCHANGED <<conns, defers>>
    /\ UNCHANGED <<alive, cfgVars, emitted, gpuProc, src, ssArg, ssRet, menuVars, msg, sessVars,
                   sampleVars, tickVars, supVars>>

\* AuthSend without the write: the handshake message is never sent.
AuthSend_Skipped ==
    /\ alive /\ pc = "auth_send"
    /\ pc' = "auth_read"
    /\ UNCHANGED <<alive, cfgVars, extVars, ssArg, ssRet, menuVars, conns, defers, err,
                   msg, sessVars, sampleVars, tickVars, supVars>>

\* conn.WriteJSON(AuthMessage{Secret: secret})
AuthSend ==
    /\ alive /\ pc = "auth_send"
    /\ \/ /\ wire' = Append(wire, [kind |-> "auth", id |-> 0,
                                   body |-> MarshalAuth(secret)])
          /\ pc' = "auth_read"
          /\ UNCHANGED err
       \/ /\ Fail("auth send")
          /\ UNCHANGED wire
    /\ UNCHANGED <<alive, cfgVars, extVars, ssArg, ssRet, menuVars, conns, defers, msg,
                   okSends, sendCalls, ticksRecv, connectedShown, sampleVars,
                   tickVars, supVars>>

\* _, msg, err := conn.ReadMessage()
AuthRead ==
    /\ alive /\ pc = "auth_read" /\ ~peerSilent
    /\ \/ /\ \E m \in AckMsgs : msg' = m
          /\ pc' = "auth_parse"
          /\ UNCHANGED err
       \/ /\ Fail("auth response")
          /\ UNCHANGED msg
    /\ UNCHANGED <<alive, cfgVars, extVars, ssArg, ssRet, menuVars, conns, defers,
                   sessVars, sampleVars, tickVars, supVars>>

\* AuthParse without the check of json.Unmarshal's error.
AuthParse_ErrIgnored ==
    /\ alive /\ pc = "auth_parse"
    /\ LET u == Unmarshal(msg) IN
       IF MapGet(u.resp, "status") # "ok"
       THEN Fail("auth failed") /\ UNCHANGED <<ssArg, ssRet>>
       ELSE /\ ssArg' = "Connected"
            /\ ssRet' = "ticker"
            /\ pc' = "ss_lock"
            /\ UNCHANGED err
    /\ UNCHANGED <<alive, cfgVars, extVars, menuVars, conns, defers, msg, sessVars,
                   sampleVars, tickVars, supVars>>

\* json.Unmarshal(msg, &resp); resp["status"] != "ok"; setStatus("Connected")
AuthParse ==
    /\ alive /\ pc = "auth_parse"
    /\ LET u == Unmarshal(msg) IN
       IF u.err
       THEN Fail("auth parse") /\ UNCHANGED <<ssArg, ssRet>>
       ELSE IF MapGet(u.resp, "status") # "ok"
       THEN Fail("auth failed") /\ UNCHANGED <<ssArg, ssRet>>
       ELSE /\ ssArg' = "Connected"
            /\ ssRet' = "ticker"
            /\ pc' = "ss_lock"
            /\ UNCHANGED err
    /\ UNCHANGED <<alive, cfgVars, extVars, menuVars, conns, defers, msg, sessVars,
                   sampleVars, tickVars, supVars>>

\* NewTicker without the first sendMetrics call: the loop starts by waiting.
NewTicker_WaitFirst ==
    /\ alive /\ pc = "ticker"
    /\ ticker' = TickSecs
    /\ tickBuf' = 0
    /\ defers' = Append(defers, "ticker.Stop")
    /\ pc' = "tick_wait"
    /\ UNCHANGED <<alive, cfgVars, extVars, ssArg, ssRet, menuVars, conns, err, msg,
                   sessVars, sampleVars, supVars>>

\* ticker := time.NewTicker(30 * time.Second); defer ticker.Stop(); then the
\* first call of sendMetrics
NewTicker ==
    /\ alive /\ pc = "ticker"
    /\ ticker' = TickSecs
    /\ tickBuf' = 0
    /\ defers' = Append(defers, "ticker.Stop")
    /\ sendCalls' = sendCalls + 1
    /\ pc' = "sm_collect"
    /\ UNCHANGED <<alive, cfgVars, extVars, ssArg, ssRet, menuVars, conns, err, msg,
                   wire, okSends, ticksRecv, connectedShown, sampleVars,
                   supVars>>

\* The runtime delivers a tick every period; ticker.C holds one tick and a
\* tick that finds it full is dropped.
Tick ==
    /\ alive /\ ticker > 0 /\ tickBuf = 0
    /\ tickBuf' = 1
    /\ UNCHANGED <<alive, cfgVars, extVars, pc, ssArg, ssRet, menuVars, conns, defers,
                   err, msg, sessVars, sampleVars, ticker, supVars>>

\* TickRecv that writes the previous sample again instead of calling
\* sendMetrics for a new one.
TickRecv_Resend ==
    /\ alive /\ pc = "tick_wait" /\ tickBuf = 1
    /\ tickBuf' = 0
    /\ ticksRecv' = ticksRecv + 1
    /\ sendCalls' = sendCalls + 1
    /\ pc' = "sm_write"
    /\ UNCHANGED <<alive, cfgVars, extVars, ssArg, ssRet, menuVars, conns, defers, err,
                   msg, wire, okSends, connectedShown, sampleVars, ticker,
                   supVars>>

\* for range ticker.C { sendMetrics(conn) ...
TickRecv ==
    /\ alive /\ pc = "tick_wait" /\ tickBuf = 1
    /\ tickBuf' = 0
    /\ ticksRecv' = ticksRecv + 1
    /\ sendCalls' = sendCalls + 1
    /\ pc' = "sm_collect"
    /\ UNCHANGED <<alive, cfgVars, extVars, ssArg, ssRet, menuVars, conns, defers, err,
                   msg, wire, okSends, connectedShown, sampleVars, ticker,
                   supVars>>

\* -------------------------------------------------------------- sendMetrics
\* collectMetrics() up to cmd.Run(): cpu.Percent and mem.VirtualMemory have
\* answered and nvidia-smi has been started; it exits with some output or
\* never exits, and cmd.Run() has no timeout.
SampleSources ==
    /\ alive /\ pc = "sm_collect" /\ nextId < MaxSamples
    /\ src' \in SourceCases
    /\ gpuProc' \in {"exits", "hangs"}
    /\ pc' = "sm_gpu_wait"
    /\ UNCHANGED <<alive, cfgVars, emitted, peerSilent, ssArg, ssRet, menuVars,
                   conns, defers, err, msg, sessVars, sampleVars, tickVars,
                   supVars>>

\* Collect after which sendMetrics writes the sample without showing it.
Collect_NoDisplay ==
    /\ alive /\ pc = "sm_gpu_wait" /\ gpuProc = "exits"
    /\ metrics' = collectMetrics(src[1], src[2], src[3])
    /\ gpuProc' = ""
    /\ nextId' = nextId + 1
    /\ curId' = nextId + 1
    /\ pc' = "sm_write"
    /\ UNCHANGED <<alive, cfgVars, emitted, peerSilent, src, ssArg, ssRet,
                   menuVars, conns, defers, err, msg, sessVars, inflight,
                   failedIds, sentIds, tickVars, supVars>>

\* cmd.Run() returns, and collectMetrics() returns the sample
Collect ==
    /\ alive /\ pc = "sm_gpu_wait" /\ gpuProc = "exits"
    /\ metrics' = collectMetrics(src[1], src[2], src[3])
    /\ gpuProc' = ""
    /\ nextId' = nextId + 1
    /\ curId' = nextId + 1
    /\ pc' = "um_lock"
    /\ UNCHANGED <<alive, cfgVars, emitted, peerSilent, src, ssArg, ssRet, menuVars, conns, defers, err,
                   msg, sessVars, inflight, failedIds, sentIds, tickVars,
                   supVars>>

\* updateMenuMetrics(m): menuMu.Lock()
UpdLock ==
    /\ alive /\ pc = "um_lock" /\ menuMu = ""
    /\ menuMu' = "bg"
    /\ pc' = "um_cpu"
    /\ UNCHANGED <<alive, cfgVars, extVars, ssArg, ssRet, menuStatus, metricTitles,
                   conns, defers, err, msg, sessVars, sampleVars, tickVars,
                   supVars>>

\* menuCPU.SetTitle(fmt.Sprintf("CPU: %.1f%%", m.CPU))
UpdCPU ==
    /\ alive /\ pc = "um_cpu"
    /\ menuCPU' = Title("CPU: %.1f%%", <<metrics.CPU>>)
    /\ pc' = "um_ram"
    /\ UNCHANGED <<alive, cfgVars, extVars, ssArg, ssRet, menuMu, menuStatus, menuRAM,
                   menuGPU, conns, defers, err, msg, sessVars, sampleVars,
                   tickVars, supVars>>

\* menuRAM.SetTitle(fmt.Sprintf("RAM: %.1f%% (%d MB / %d MB)", ...))
UpdRAM ==
    /\ alive /\ pc = "um_ram"
    /\ menuRAM' = Title("RAM: %.1f%% (%d MB / %d MB)",
                        <<metrics.RAM, metrics.RAMUsedMB, metrics.RAMTotalMB>>)
    /\ pc' = "um_gpu"
    /\ UNCHANGED <<alive, cfgVars, extVars, ssArg, ssRet, menuMu, menuStatus, menuCPU,
                   menuGPU, conns, defers, err, msg, sessVars, sampleVars,
                   tickVars, supVars>>

\* if m.GPU >= 0 { "GPU: %.0f%%" } else { "GPU: N/A" }
UpdGPU ==
    /\ alive /\ pc = "um_gpu"
    /\ menuGPU' = IF metrics.GPU >= 0
                  THEN Title("GPU: %.0f%%", <<metrics.GPU>>)
                  ELSE Title("GPU: N/A", <<>>)
    /\ pc' = "um_unlock"
    /\ UNCHANGED <<alive, cfgVars, extVars, ssArg, ssRet, menuMu, menuStatus, menuCPU,
                   menuRAM, conns, defers, err, msg, sessVars, sampleVars,
                   tickVars, supVars>>

\* defer menuMu.Unlock(), back in sendMetrics
UpdUnlock ==
    /\ alive /\ pc = "um_unlock"
    /\ menuMu' = ""
    /\ pc' = "sm_write"
    /\ UNCHANGED <<alive, cfgVars, extVars, ssArg, ssRet, menuStatus, metricTitles,
                   conns, defers, err, msg, sessVars, sampleVars, tickVars,
                   supVars>>

\* conn.WriteJSON(metrics) is entered
WriteBegin ==
    /\ alive /\ pc = "sm_write"
    /\ inflight' = inflight \cup {curId}
    /\ pc' = "sm_writing"
    /\ UNCHANGED <<alive, cfgVars, extVars, ssArg, ssRet, menuVars, conns, defers, err,
                   msg, sessVars, metrics, nextId, curId, failedIds, sentIds,
                   tickVars, supVars>>

\* WriteEnd that writes the sample again when the write failed.
WriteEnd_Retry ==
    /\ alive /\ pc = "sm_writing"
    /\ inflight' = inflight \ {curId}
    /\ \/ /\ wire' = Append(wire, [kind |-> "metrics", id |-> curId,
                                   body |-> MarshalMetrics(metrics)])
          /\ sentIds' = Append(sentIds, curId)
          /\ okSends' = okSends + 1
          /\ pc' = "tick_wait"
          /\ UNCHANGED <<err, failedIds>>
       \/ /\ pc' = "sm_write"
          /\ failedIds' = failedIds \cup {curId}
          /\ UNCHANGED <<err, wire, sentIds, okSends>>
    /\ UNCHANGED <<alive, cfgVars, extVars, ssArg, ssRet, menuVars, conns, defers, msg,
                   sendCalls, ticksRecv, connectedShown, metrics, nextId,
                   curId, tickVars, supVars>>

\* conn.WriteJSON(metrics) returns: nil, and the loop waits for the next
\* tick, or an error, which sendMetrics wraps and run() returns.
WriteEnd ==
    /\ alive /\ pc = "sm_writing"
    /\ inflight' = inflight \ {curId}
    /\ \/ /\ wire' = Append(wire, [kind |-> "metrics", id |-> curId,
                                   body |-> MarshalMetrics(metrics)])
          /\ sentIds' = Append(sentIds, curId)
          /\ okSends' = okSends + 1
          /\ pc' = "tick_wait"
          /\ UNCHANGED <<err, failedIds>>
       \/ /\ Fail("send metrics")
          /\ failedIds' = failedIds \cup {curId}
          /\ UNCHANGED <<wire, sentIds, okSends>>
    /\ UNCHANGED <<alive, cfgVars, extVars, ssArg, ssRet, menuVars, conns, defers, msg,
                   sendCalls, ticksRecv, connectedShown, metrics, nextId,
                   curId, tickVars, supVars>>

\* The deferred calls of run(), last registered first, and its return.
HasDefer(d) == \E i \in 1..Len(defers) : defers[i] = d

\* RunReturn where the connection is not closed.
RunReturn_NoClose ==
    /\ alive /\ pc = "run_ret"
    /\ ticker' = IF HasDefer("ticker.Stop") THEN 0 ELSE ticker
    /\ defers' = <<>>
    /\ activeRuns' = activeRuns - 1
    /\ backoffs' = 0
    /\ sleptSecs' = 0
    /\ pc' = "sup_check"
    /\ UNCHANGED <<alive, cfgVars, extVars, ssArg, ssRet, menuVars, conns, err, msg,
                   sessVars, sampleVars, tickBuf, attempts>>

RunReturn ==
    /\ alive /\ pc = "run_ret"
    /\ ticker' = IF HasDefer("ticker.Stop") THEN 0 ELSE ticker
    /\ conns' = IF HasDefer("conn.Close") THEN conns - 1 ELSE conns
    /\ defers' = <<>>
    /\ activeRuns' = activeRuns - 1
    /\ backoffs' = 0
    /\ sleptSecs' = 0
    /\ pc' = "sup_check"
    /\ UNCHANGED <<alive, cfgVars, extVars, ssArg, ssRet, menuVars, err, msg, sessVars,
                   sampleVars, tickBuf, attempts>>

\* SupCheck without the setStatus("Disconnected") call.
SupCheck_NoStatus ==
    /\ alive /\ pc = "sup_check"
    /\ pc' = "sleep"
    /\ UNCHANGED <<alive, cfgVars, extVars, ssArg, ssRet, menuVars, conns, defers, err,
                   msg, sessVars, sampleVars, tickVars, supVars>>

\* SupCheck that leaves the loop when the collector rejected the secret.
SupCheck_GiveUp ==
    /\ alive /\ pc = "sup_check"
    /\ IF err = "auth failed"
       THEN /\ pc' = "stopped"
            /\ UNCHANGED <<ssArg, ssRet>>
       ELSE /\ ssArg' = "Disconnected"
            /\ ssRet' = "sleep"
            /\ pc' = "ss_lock"
    /\ UNCHANGED <<alive, cfgVars, extVars, menuVars, conns, defers, err, msg,
                   sessVars, sampleVars, tickVars, supVars>>

\* if err != nil { log.Printf(...); setStatus("Disconnected") }
SupCheck ==
    /\ alive /\ pc = "sup_check"
    /\ IF err # "nil"
       THEN /\ ssArg' = "Disconnected"
            /\ ssRet' = "sleep"
            /\ pc' = "ss_lock"
       ELSE /\ pc' = "sleep"
            /\ UNCHANGED <<ssArg, ssRet>>
    /\ UNCHANGED <<alive, cfgVars, extVars, menuVars, conns, defers, err, msg,
                   sessVars, sampleVars, tickVars, supVars>>

\* Backoff that waits twice as long after an authentication failure.
Backoff_PerClass ==
    /\ alive /\ pc = "sleep"
    /\ backoffs' = backoffs + 1
    /\ sleptSecs' = sleptSecs + (IF err = "auth failed" THEN 2 * BackoffSecs
                                 ELSE BackoffSecs)
    /\ pc' = "loop"
    /\ UNCHANGED <<alive, cfgVars, extVars, ssArg, ssRet, menuVars, conns, defers, err,
                   msg, sessVars, sampleVars, tickVars, activeRuns, attempts>>

\* time.Sleep(5 * time.Second), and the jump back to the top of the loop
Backoff ==
    /\ alive /\ pc = "sleep"
    /\ backoffs' = backoffs + 1
    /\ sleptSecs' = sleptSecs + BackoffSecs
    /\ pc' = "loop"
    /\ UNCHANGED <<alive, cfgVars, extVars, ssArg, ssRet, menuVars, conns, defers, err,
                   msg, sessVars, sampleVars, tickVars, activeRuns, attempts>>

\* The Quit item is clicked: systray.Quit(), onExit, os.Exit(0).
Quit ==
    /\ alive
    /\ alive' = FALSE
    /\ UNCHANGED <<cfgVars, extVars, pc, ssArg, ssRet, menuVars, conns, defers, err,
                   msg, sessVars, sampleVars, tickVars, supVars>>

Next ==
    \/ RunEnter \/ SetStatusLock \/ SetStatusTitle \/ SetStatusUnlock
    \/ Dial \/ AuthSend \/ AuthRead \/ AuthParse \/ NewTicker \/ TickRecv
    \/ SampleSources \/ Collect \/ UpdLock \/ UpdCPU \/ UpdRAM \/ UpdGPU \/ UpdUnlock
    \/ WriteBegin \/ WriteEnd \/ RunReturn \/ SupCheck \/ Backoff
    \/ Tick \/ Quit

Spec == Init /\ [][Next]_vars

\* The steps of the supervisor between a return of run() and the next call:
\* local computation, an uncontended lock and a timed sleep, all of which the
\* Go scheduler and timers complete.
Supervise ==
    \/ RunReturn \/ SupCheck \/ SetStatusLock \/ SetStatusTitle
    \/ SetStatusUnlock \/ Backoff \/ RunEnter

FairSpec == Spec /\ WF_vars(Supervise)

\* The steps of collectMetrics(): the reads of the sources always return;
\* cmd.Run() returns when the nvidia-smi process exits.
Sampling == SampleSources \/ Collect

SamplerFairSpec == Spec /\ WF_vars(Sampling)

\* The supervisor's steps and the dial: Dial returns at once on a malformed
\* URL and otherwise within the handshake timeout of the default dialer.
RetrySpec == Spec /\ WF_vars(Supervise) /\ WF_vars(Dial)

\* The steps of run() up to the send loop.  Dial and WriteJSON return;
\* ReadMessage has no deadline and returns when the peer sends a message or
\* the connection fails.
Handshake == Dial \/ AuthSend \/ AuthRead \/ AuthParse

ConnectFairSpec == Spec /\ WF_vars(Supervise) /\ WF_vars(Handshake)

\* The steps of setStatus and updateMenuMetrics: the lock has one user, and
\* SetTitle returns.
MenuUpdate ==
    \/ SetStatusLock \/ SetStatusTitle \/ SetStatusUnlock
    \/ UpdLock \/ UpdCPU \/ UpdRAM \/ UpdGPU \/ UpdUnlock

MenuFairSpec == Spec /\ WF_vars(MenuUpdate)

\* ------------------------------------------------------------ vocabulary
ErrKinds == {"dial", "auth send", "auth response", "auth parse",
             "auth failed", "send metrics"}

\* run() has just been called.
RunStarted == pc = "ss_lock" /\ ssRet = "dial"
\* run() has returned and the supervisor has not called it again.
BetweenRuns ==
    \/ pc \in {"sup_check", "sleep", "loop"}
    \/ pc \in {"ss_lock", "ss_title", "ss_unlock"} /\ ssRet = "sleep"
\* run() is before its dial.
BeforeDial ==
    \/ pc = "dial"
    \/ pc \in {"ss_lock", "ss_title", "ss_unlock"} /\ ssRet = "dial"
\* run() has passed the handshake.
PastHandshake ==
    \/ pc \in {"ticker", "sm_collect", "sm_gpu_wait", "um_lock", "um_cpu",
               "um_ram", "um_gpu",
               "um_unlock", "sm_write", "sm_writing", "tick_wait"}
    \/ pc \in {"ss_lock", "ss_title", "ss_unlock"} /\ ssRet = "ticker"
\* run() is in sendMetrics or waiting for a tick.
InSendLoop ==
    pc \in {"sm_collect", "sm_gpu_wait", "um_lock", "um_cpu", "um_ram", "um_gpu",
            "um_unlock", "sm_write", "sm_writing", "tick_wait"}

\* The sample numbers of the metrics messages on the wire, in wire order.
WireSampleIds == SelectSeq(wire, LAMBDA w : w.kind = "metrics")
WireAuths == SelectSeq(wire, LAMBDA w : w.kind = "auth")

\* An acknowledgment as JSON: an object all of whose values are strings.
IsStringMap(m) ==
    m.t = "object" /\ \A mm \in m.members : mm.vt = "string"
\* An object whose values are strings or null.
IsStringOrNullMap(m) ==
    m.t = "object" /\ \A mm \in m.members : mm.vt \in {"string", "null"}
\* The acknowledgment's status field is the string "ok".
StatusIsOk(m) ==
    m.t = "object" /\ \E mm \in m.members :
        mm.k = "status" /\ mm.vt = "string" /\ mm.s = "ok"

\* ----------------------------------------------------------------- claims
\* C1: the supervisor never gives up.  While the process lives, after run()
\* has returned any of the terminal errors, and whatever the number of
\* attempts made so far, a further run() is started.
C1_NeverGivesUp ==
    (alive /\ pc = "sup_check" /\ err \in ErrKinds /\ attempts \in 1..MaxAttempts)
        ~> (~alive \/ RunStarted)

C1_Witness ==
    alive /\ RunStarted /\ attempts >= 4

\* C2: between the return of a run() and the next call exactly one sleep of
\* 5 seconds happens, whatever the error was, and no dial after the first
\* starts without it.
C2_OneFixedBackoff ==
    /\ (pc = "loop" /\ attempts >= 1) =>
           (err \in ErrKinds /\ backoffs = 1 /\ sleptSecs = 5)
    /\ (BeforeDial /\ attempts >= 2) => (backoffs = 1 /\ sleptSecs = 5)

C2_Witness ==
    pc = "dial" /\ attempts >= 2 /\ backoffs = 1 /\ sleptSecs = 5

\* C3 as stated: an attempt whose acknowledgment is unreadable, is not a JSON
\* object of string values, or has a status other than "ok" never enters the
\* send loop, sends no sample and never shows Connected.
C3_AsStated ==
    (\/ err = "auth response"
     \/ msg # NoMsg /\ (~IsStringMap(msg) \/ ~StatusIsOk(msg)))
        => (~PastHandshake /\ ~connectedShown /\ Len(WireSampleIds) = 0)

\* C3 amended: the same, where the acknowledgment is unreadable, is not a
\* JSON object whose values are strings or null, or has a status other than
\* the string "ok".
C3_BadAckNoSamples ==
    (\/ err = "auth response"
     \/ msg # NoMsg /\ (~IsStringOrNullMap(msg) \/ ~StatusIsOk(msg)))
        => (~PastHandshake /\ ~connectedShown /\ Len(WireSampleIds) = 0)

C3_Witness ==
    /\ pc = "sup_check" /\ err \in {"auth parse", "auth failed"}
    /\ msg # NoMsg /\ ~StatusIsOk(msg)
    /\ Len(wire) = 1 /\ ~connectedShown

\* C4: the first message on a connection is the authentication message with
\* the secret; it is on the connection once; a sample is written only after
\* it and after an acknowledgment with status "ok" was read.
C4_AuthFirstOnce ==
    /\ Len(wire) >= 1 =>
           /\ wire[1].kind = "auth"
           /\ wire[1].body = Json("object", {Member("secret", "string", secret, 0)})
    /\ Len(WireAuths) <= 1
    /\ pc \in {"auth_read", "auth_parse"} \/ PastHandshake => Len(WireAuths) = 1
    /\ (Len(WireSampleIds) >= 1 \/ pc \in {"sm_write", "sm_writing"}) =>
           (Len(WireAuths) = 1 /\ StatusIsOk(msg))

C4_Witness ==
    Len(wire) >= 2 /\ wire[2].kind = "metrics" /\ StatusIsOk(msg)

\* C5: after N sendMetrics calls of a session have succeeded the connection
\* carries exactly N samples, in the order of their collection, each once;
\* at most one write is in flight.
C5_OrderedExactlyOnce ==
    /\ Len(WireSampleIds) = okSends
    /\ \A i \in 1..Len(WireSampleIds) : \A j \in 1..Len(WireSampleIds) :
           i < j => WireSampleIds[i].id < WireSampleIds[j].id
    /\ \A i \in 1..Len(WireSampleIds) : WireSampleIds[i].id <= nextId
    /\ Cardinality(inflight) <= 1
    /\ okSends <= sendCalls

C5_Witness ==
    okSends >= 2 /\ Len(WireSampleIds) = 2

\* The sample numbers in a sequence of sample numbers.
Range(q) == {q[i] : i \in 1..Len(q)}

\* C6: a failed write of a sample ends the session.  The step in which a
\* write fails leads to the return of run() with the send error; from then
\* until the next run() nothing more is written; a sample whose write failed
\* is never written, in this session or a later one; the supervisor sees the
\* send error.
C6_SendFailureTerminates ==
    /\ [](failedIds \cap Range(sentIds) = {})
    /\ []((BetweenRuns /\ sendCalls > okSends) => err = "send metrics")
    /\ [][/\ failedIds' # failedIds => (pc' = "run_ret" /\ err' = "send metrics")
          /\ (err = "send metrics" /\ err' = "send metrics") =>
                 (wire' = wire /\ sentIds' = sentIds /\ inflight' = {})]_vars

C6_Witness ==
    /\ pc = "sup_check" /\ err = "send metrics"
    /\ okSends >= 1 /\ sendCalls = okSends + 1 /\ curId \in failedIds

\* C7: on every terminal path the connection opened by the dial is closed
\* before run() returns; between runs, and so during the backoff sleep, no
\* connection is open.
C7_ClosedOnReturn ==
    BetweenRuns => (conns = 0 /\ defers = <<>>)

C7_Witness ==
    pc = "sleep" /\ err \in ErrKinds \ {"dial"} /\ conns = 0 /\ Len(wire) >= 1

\* C8 as stated: once the supervisor has started, exactly one session is
\* active at all times.
C8_AsStated ==
    (alive /\ attempts >= 1) => (activeRuns = 1 /\ conns <= 1)

\* C8 amended: at most one session is active at any time, never two run()
\* invocations or two connections; a connection is open only inside a run();
\* no session is active exactly between the return of run() and the next
\* call, while the supervisor reports the error and sleeps.
C8_AtMostOneSession ==
    /\ activeRuns \in {0, 1}
    /\ conns \in {0, 1}
    /\ conns = 1 => activeRuns = 1
    /\ activeRuns = 0 <=> BetweenRuns

C8_Witness ==
    /\ activeRuns = 1 /\ conns = 1 /\ attempts >= 2 /\ pc = "auth_send"

\* C9: the first sample of a session is sent right after the handshake,
\* before any tick is received; every later sendMetrics call follows the
\* receipt of one tick of the 30 s ticker; the loop is left only by a failed
\* send.
C9_ImmediateThenPerTick ==
    /\ InSendLoop => (ticker = 30 /\ sendCalls = ticksRecv + 1)
    /\ (InSendLoop /\ pc # "tick_wait" /\ okSends = 0) => ticksRecv = 0
    /\ pc = "tick_wait" => okSends = sendCalls
    /\ (pc = "run_ret" /\ sendCalls >= 1) => err = "send metrics"

C9_Witness ==
    pc = "sm_writing" /\ sendCalls = 2 /\ ticksRecv = 1 /\ okSends = 1

\* C10 as stated: the status text corresponds to the session's phase in
\* every state; Connected is shown only while the session holds an open,
\* authenticated connection.
C10_AsStated ==
    (alive /\ menuStatus = "Status: Connected") =>
        (conns = 1 /\ activeRuns = 1 /\ StatusIsOk(msg))

\* C10 amended: the status text corresponds to the session's phase outside
\* the windows between a change of phase and the end of the setStatus call
\* that reports it.  Connected is shown only after the handshake of the
\* present or last session succeeded; it stays shown after run() has closed
\* the connection until the supervisor's setStatus("Disconnected"), and is
\* not shown during the backoff sleep, the dial or the handshake.
C10_StatusFollowsPhase ==
    /\ menuStatus = "Status: Connected" =>
           (connectedShown /\ StatusIsOk(msg) /\ (conns = 1 \/ BetweenRuns))
    /\ pc \in {"dial", "auth_send", "auth_read", "auth_parse"} =>
           menuStatus = "Status: Connecting..."
    /\ (pc = "ticker" \/ InSendLoop) => menuStatus = "Status: Connected"
    /\ pc \in {"sleep", "loop"} => menuStatus = "Status: Disconnected"

C10_Witness ==
    /\ menuStatus = "Status: Connected" /\ pc = "sup_check"
    /\ conns = 0 /\ err = "send metrics"

\* C11: sampling always completes.  While the process lives, a call of
\* collectMetrics() that has started the GPU query returns a sample to
\* sendMetrics, whatever the nvidia-smi process does.
C11_SamplingCompletes ==
    (alive /\ pc = "sm_gpu_wait") ~> (~alive \/ pc = "um_lock")

\* metrics holds the sample made from the answers in src.
SampleCurrent == curId >= 1 /\ pc # "sm_gpu_wait"
\* updateMenuMetrics has finished for the sample in metrics.
TitlesCurrent ==
    SampleCurrent /\ pc \notin {"um_lock", "um_cpu", "um_ram", "um_gpu"}
\* The GPU query failed or its output did not parse.
GpuQueryFailed == src[3].cmdErr \/ ~src[3].parses
\* The numeric value of a member of a JSON object.
NumOf(body, key) == (CHOOSE mm \in body.members : mm.k = key).n

\* C12: when the GPU query fails or its output does not parse, the sample
\* has gpu = -1 and its cpu, ram, ramUsedMb and ramTotalMb are the values of
\* their own sources, the same as when the query succeeds; a transmitted
\* sample carries all five fields; the GPU title reads "GPU: N/A" exactly
\* when gpu is negative.
C12_GpuSentinelOnly ==
    /\ SampleCurrent =>
           /\ GpuQueryFailed => metrics.GPU = -1
           /\ ~GpuQueryFailed => metrics.GPU = src[3].v
           /\ metrics.CPU = (IF src[1].err THEN 0 ELSE src[1].v)
           /\ metrics.RAM = (IF src[2].err THEN 0 ELSE src[2].pct)
           /\ metrics.RAMUsedMB = (IF src[2].err THEN 0 ELSE src[2].used)
           /\ metrics.RAMTotalMB = (IF src[2].err THEN 0 ELSE src[2].total)
    /\ \A i \in 1..Len(wire) : wire[i].kind = "metrics" =>
           /\ {mm.k : mm \in wire[i].body.members} =
                  {"cpu", "ram", "ramUsedMb", "ramTotalMb", "gpu"}
           /\ (SampleCurrent /\ wire[i].id = curId) =>
                  /\ NumOf(wire[i].body, "cpu") = metrics.CPU
                  /\ NumOf(wire[i].body, "ram") = metrics.RAM
                  /\ NumOf(wire[i].body, "ramUsedMb") = metrics.RAMUsedMB
                  /\ NumOf(wire[i].body, "ramTotalMb") = metrics.RAMTotalMB
                  /\ NumOf(wire[i].body, "gpu") = metrics.GPU
    /\ TitlesCurrent => (menuGPU.fmt = "GPU: N/A" <=> metrics.GPU < 0)

C12_Witness ==
    /\ pc = "tick_wait" /\ SampleCurrent /\ GpuQueryFailed
    /\ metrics.GPU = -1 /\ metrics.CPU = 42 /\ metrics.RAMTotalMB = 8192
    /\ menuGPU.fmt = "GPU: N/A"
    /\ \E i \in 1..Len(wire) : wire[i].id = curId

C15_EndpointIsApiUrl ==
    pc \in {"dial", "auth_send"} =>
        (apiURL = env["M_API_URL"] /\ secret = env["M_AGENT_SECRET"])

\* The three metric titles show the sample m.
Shows(m) ==
    /\ menuCPU = [fmt |-> "CPU: %.1f%%", args |-> <<m.CPU>>]
    /\ menuRAM = [fmt |-> "RAM: %.1f%% (%d MB / %d MB)",
                  args |-> <<m.RAM, m.RAMUsedMB, m.RAMTotalMB>>]
    /\ menuGPU = IF m.GPU >= 0 THEN [fmt |-> "GPU: %.0f%%", args |-> <<m.GPU>>]
                 ELSE [fmt |-> "GPU: N/A", args |-> <<>>]
\* The message body carries the sample m.
Carries(body, m) ==
    /\ NumOf(body, "cpu") = m.CPU /\ NumOf(body, "ram") = m.RAM
    /\ NumOf(body, "ramUsedMb") = m.RAMUsedMB
    /\ NumOf(body, "ramTotalMb") = m.RAMTotalMB
    /\ NumOf(body, "gpu") = m.GPU

\* C16: in every send cycle the sample shown in the menu is the sample then
\* written, and it is shown before it is written: when WriteJSON is entered
\* the titles show the sample; a message is put on the wire only while the
\* titles show the sample it carries; the titles show the sample also after
\* a cycle whose write failed.
C16_DisplayedThenSent ==
    /\ [](pc \in {"sm_write", "sm_writing"} => Shows(metrics))
    /\ []((SampleCurrent /\ curId \in failedIds) => Shows(metrics))
    /\ [][Len(wire') > Len(wire) /\ wire'[Len(wire')].kind = "metrics" =>
              /\ Shows(metrics)
              /\ Carries(wire'[Len(wire')].body, metrics)
              /\ wire'[Len(wire')].id = curId]_vars

C16_Witness ==
    /\ pc = "run_ret" /\ err = "send metrics" /\ curId \in failedIds
    /\ curId >= 2 /\ Shows(metrics) /\ metrics.CPU = 0

\* C17: the statuses of an attempt are Connecting..., then possibly
\* Connected, then Disconnected.  Connecting... is set before the dial;
\* Connected only after it, in the same attempt; Disconnected is set after
\* the terminal error and before the sleep, so that the title reads
\* Disconnected throughout the backoff wait.
C17_StatusSequence ==
    /\ emitted \in {<<>>, <<"Connecting...">>,
                    <<"Connecting...", "Connected">>,
                    <<"Connecting...", "Disconnected">>,
                    <<"Connecting...", "Connected", "Disconnected">>}
    /\ pc = "dial" => emitted = <<"Connecting...">>
    /\ conns >= 1 => (Len(emitted) >= 1 /\ emitted[Len(emitted)] # "Disconnected")
    /\ (pc \in {"sleep", "loop"} /\ attempts >= 1) =>
           /\ emitted[Len(emitted)] = "Disconnected"
           /\ menuStatus = "Status: Disconnected"
    /\ connectedShown <=> (\E i \in 1..Len(emitted) : emitted[i] = "Connected")

C17_Witness ==
    pc = "sleep" /\ emitted = <<"Connecting...", "Connected", "Disconnected">>

\* C18: every attempt leaves the connecting phase.  While the process
\* lives, a run() that has started reaches the send loop or returns an error
\* to the supervisor, whatever the peer does.
C18_AttemptProgresses ==
    (alive /\ RunStarted)
        ~> (~alive \/ pc = "ticker" \/ InSendLoop \/ pc \in {"run_ret", "sup_check"})

\* C19: menuMu is held only during a title update.  The background task
\* holds it exactly between the Lock and the Unlock of setStatus and of
\* updateMenuMetrics, never while it samples, dials, reads or writes the
\* connection, waits for a tick or sleeps; and once taken it is released.
C19_LockOnlyAroundTitles ==
    /\ [](menuMu = "bg" <=>
              pc \in {"ss_title", "ss_unlock", "um_cpu", "um_ram", "um_gpu",
                      "um_unlock"})
    /\ [](pc \in {"sm_collect", "sm_gpu_wait", "dial", "auth_send",
                   "auth_read", "auth_parse", "sm_write", "sm_writing",
                   "tick_wait", "sleep", "loop", "run_ret", "sup_check"}
              => menuMu = "")
    /\ (alive /\ menuMu = "bg") ~> (~alive \/ menuMu = "")

C19_Witness ==
    /\ pc = "sm_writing" /\ menuMu = "" /\ Shows(metrics) /\ curId >= 1
    /\ emitted = <<"Connecting...", "Connected">>

\* The samples collectMetrics can produce.
SampleValues == {collectMetrics(c[1], c[2], c[3]) : c \in SourceCases}
\* The titles of a sample, and the placeholders the menu starts with.
CpuTitle(m) == [fmt |-> "CPU: %.1f%%", args |-> <<m.CPU>>]
RamTitle(m) ==
    [fmt |-> "RAM: %.1f%% (%d MB / %d MB)",
     args |-> <<m.RAM, m.RAMUsedMB, m.RAMTotalMB>>]
GpuTitle(m) ==
    IF m.GPU >= 0 THEN [fmt |-> "GPU: %.0f%%", args |-> <<m.GPU>>]
    ELSE [fmt |-> "GPU: N/A", args |-> <<>>]

\* C20: the titles never show a mix.  The tray reads the titles without
\* taking menuMu, so what it can observe together is the titles of any one
\* state: there the CPU, RAM and GPU titles, where they are no longer the
\* initial placeholders, all come from one sample, and the status title is
\* one complete status.
C20_TitlesFromOneSample ==
    /\ \E m \in SampleValues :
           /\ menuCPU \in {[fmt |-> "CPU: ---", args |-> <<>>], CpuTitle(m)}
           /\ menuRAM \in {[fmt |-> "RAM: ---", args |-> <<>>], RamTitle(m)}
           /\ menuGPU \in {[fmt |-> "GPU: ---", args |-> <<>>], GpuTitle(m)}
    /\ menuStatus \in {"Status: Disconnected", "Status: Connecting...",
                        "Status: Connected"}

====
